---------------------------- MODULE Spec2Model ----------------------------
(***************************************************************************)
(* A model of the tools, the metrics plugin and the evaluator of           *)
(* arxiv_quantum_agent.py:                                                 *)
(*   - MetricsPlugin (before_agent_callback, after_agent_callback,         *)
(*     get_metrics_summary), checked under Spec;                           *)
(*   - calculate_relevance_score, checked under SpecScore;                 *)
(*   - extract_latex_equations, checked under SpecExtract;                 *)
(*   - AgentEvaluator.evaluate_performance, checked under SpecEval;        *)
(*   - AgentEvaluator.evaluate_retrieval_quality, under SpecRetrieval;     *)
(*   - fetch_arxiv_papers, checked under SpecFetch;                        *)
(*   - QuantumPhysicsAgentSystem.process_research_query, under SpecSystem. *)
(*                                                                         *)
(* Units.  Durations of the plugin are kept in milliseconds (the code      *)
(* holds float seconds).  The three values get_metrics_summary passes      *)
(* through round(x, 2) are kept in hundredths: 200 stands for 2.0 seconds, *)
(* 10000 for 100.0 percent.  Timestamps of the scorer are kept in hours.   *)
(* Strings are sequences of one-character strings.                         *)
(***************************************************************************)
EXTENDS Integers, Sequences, FiniteSets, TLC

VARIABLES
    \* ---- MetricsPlugin fields (lines 234-241)
    agent_calls,
    papers_processed,
    total_processing_time,   \* milliseconds
    successful_operations,
    failed_operations,
    start_time,              \* <<>> is None, <<t>> is the datetime t
    \* ---- the environment of the plugin
    now,                     \* the wall clock datetime.now() reads, in ms
    raised,                  \* the last call propagated an exception
    lastOp,                  \* the last call made on the plugin
    prevOp,                  \* the call made before it
    ncalls,                  \* how many calls were made on the plugin
    lastSummary,             \* what the last get_metrics_summary returned
    \* ---- history of the operations the callbacks bracket
    open,                    \* true start times of the operations in flight
    completed,               \* operations that ended
    trueTotal,               \* sum of the true durations of the ended ones
    lost,                    \* sum over ended operations of
                             \*   (most recent start) - (own start)
    lastStartClock,          \* clock of the most recent before_agent_callback
    overlapped,              \* some operation started while another was open
    spurious,                \* some after_agent_callback ended no operation
    \* ---- calculate_relevance_score (lines 182-219)
    paper,                   \* [title, abstract, published]
    user_keywords,           \* sequence of strings
    evalNow,                 \* datetime.now() of line 210, in hours
    score,
    kwIdx,                   \* position of the for loop of line 200
    scorePc,                 \* "idle", "loop", "cap", "done"; "raised" when
                             \* an exception left the function
    scoreResult,             \* the value returned
    \* ---- extract_latex_equations (lines 146-179)
    text,                    \* the argument
    exPc,                    \* "idle", "patterns", "dedup", "done"
    patIdx,                  \* position of the for loop of line 167
    equations,               \* the merged candidates
    seen,
    unique_equations,
    dedupIdx,                \* position of the for loop of line 174
    exResult,                \* the value returned
    \* ---- AgentEvaluator.evaluate_performance (lines 587-618)
    metricsIn,               \* the metrics dict: a function on the keys it has
    evalPc,                  \* "idle", "speed", "reliability", "done"
    ratings,                 \* the dict being built, returned at "done"
    \* ---- AgentEvaluator.evaluate_retrieval_quality (lines 554-570)
    rqPapers,                \* sequence of [title, abstract]
    rqKeywords,
    rqPc,                    \* "idle", "entry", "loop", "done"
    rqIdx,                   \* position of the for loop of line 565
    relevant_count,
    rqResult,                \* the value returned, as the fraction num / den
    \* ---- fetch_arxiv_papers (lines 63-143)
    network,                 \* what urlopen does: "ok", "urlerror", "timeout"
    feedDoc,                 \* the response: [wellformed, entries]
    fetchPc,                 \* "idle", "request", "parse", "loop", "except",
                             \*   "done"
    fetchIdx,                \* position of the for loop of line 109
    papers,                  \* the list of line 108
    fetchResult,             \* the value returned
    fetchRaised,             \* an exception left the function
    \* ---- QuantumPhysicsAgentSystem.process_research_query (lines 484-525)
    qPc,                     \* "idle", "ready", "running"
    queryOwnCalls,           \* before_agent_callback calls of the running query
    queryMetrics             \* per returned query: [metrics, ownCalls]

metricsFields == <<agent_calls, papers_processed, total_processing_time,
                   successful_operations, failed_operations>>
metricsEnv == <<now, raised, lastOp, prevOp, ncalls, lastSummary>>
metricsHist == <<open, completed, trueTotal, lost, lastStartClock,
                 overlapped, spurious>>
metricsVars == <<metricsFields, start_time, metricsEnv, metricsHist>>
scoreVars == <<paper, user_keywords, evalNow, score, kwIdx, scorePc,
               scoreResult>>
extractVars == <<text, exPc, patIdx, equations, seen, unique_equations,
                 dedupIdx, exResult>>
evalVars == <<metricsIn, evalPc, ratings>>
retrievalVars == <<rqPapers, rqKeywords, rqPc, rqIdx, relevant_count, rqResult>>
fetchVars == <<network, feedDoc, fetchPc, fetchIdx, papers, fetchResult,
               fetchRaised>>
systemVars == <<qPc, queryOwnCalls, queryMetrics>>
vars == <<metricsVars, scoreVars, extractVars, evalVars, retrievalVars,
          fetchVars, systemVars>>

-----------------------------------------------------------------------------
(* Bounds of the model *)

\* calls made on one plugin
MaxOps == 5
\* the clock stops advancing here
MaxClock == 4000
\* what the clock may advance by between two reads (ms): not at all, below
\* and above half a hundredth of a second, and the two seconds of the example
TickSteps == {0, 1, 6, 2000}

\* longest title drawn over Alphabet
MaxTitleLen == 2
\* longest keyword list
MaxKeywords == 3
\* longest text drawn over TextAlphabet
MaxTextLen == 5

-----------------------------------------------------------------------------
(* Helpers *)

Min(a, b) == IF a <= b THEN a ELSE b

\* round(n / d) to the nearest integer, ties to even: what Python's round()
\* does on an exactly representable value (n >= 0, d > 0)
RoundDiv(n, d) ==
    LET q == n \div d
        r == n % d
    IN  IF 2 * r < d THEN q
        ELSE IF 2 * r > d THEN q + 1
        ELSE IF q % 2 = 0 THEN q ELSE q + 1

RemoveAt(s, i) == SubSeq(s, 1, i - 1) \o SubSeq(s, i + 1, Len(s))

-----------------------------------------------------------------------------
(* MetricsPlugin *)

NoSummary == [total_agent_calls |-> 0, papers_processed |-> 0,
              total_processing_time_seconds |-> 0,
              average_processing_time_seconds |-> 0,
              successful_operations |-> 0, failed_operations |-> 0,
              success_rate_percent |-> 0]

\* MetricsPlugin.__init__
InitMetrics ==
    /\ agent_calls = 0
    /\ papers_processed = 0
    /\ total_processing_time = 0
    /\ successful_operations = 0
    /\ failed_operations = 0
    /\ start_time = <<>>
    /\ now = 0
    /\ raised = FALSE
    /\ lastOp = "init"
    /\ prevOp = "init"
    /\ ncalls = 0
    /\ lastSummary = NoSummary
    /\ open = <<>>
    /\ completed = 0
    /\ trueTotal = 0
    /\ lost = 0
    /\ lastStartClock = 0
    /\ overlapped = FALSE
    /\ spurious = FALSE

\* a variant that averages the rounded total instead of the total
MetricsSummary_avg_of_rounded_total ==
    LET done == successful_operations + failed_operations
        success_rate == IF done > 0
                        THEN RoundDiv(successful_operations * 10000, done)
                        ELSE 0
        avg_processing_time ==
            IF successful_operations > 0
            THEN RoundDiv(RoundDiv(total_processing_time, 10),
                          successful_operations)
            ELSE 0
    IN  [total_agent_calls |-> agent_calls,
         papers_processed |-> papers_processed,
         total_processing_time_seconds |-> RoundDiv(total_processing_time, 10),
         average_processing_time_seconds |-> avg_processing_time,
         successful_operations |-> successful_operations,
         failed_operations |-> failed_operations,
         success_rate_percent |-> success_rate]

\* a variant whose success rate is taken over the calls started
MetricsSummary_rate_over_calls ==
    LET success_rate == IF agent_calls > 0
                        THEN RoundDiv(Min(successful_operations, agent_calls)
                                          * 10000, agent_calls)
                        ELSE 0
        avg_processing_time ==
            IF successful_operations > 0
            THEN RoundDiv(total_processing_time, 10 * successful_operations)
            ELSE 0
    IN  [total_agent_calls |-> agent_calls,
         papers_processed |-> papers_processed,
         total_processing_time_seconds |-> RoundDiv(total_processing_time, 10),
         average_processing_time_seconds |-> avg_processing_time,
         successful_operations |-> successful_operations,
         failed_operations |-> failed_operations,
         success_rate_percent |-> success_rate]

\* the dict get_metrics_summary builds from the fields (lines 265-285)
MetricsSummary ==
    LET done == successful_operations + failed_operations
        success_rate == IF done > 0
                        THEN RoundDiv(successful_operations * 10000, done)
                        ELSE 0
        avg_processing_time ==
            IF successful_operations > 0
            THEN RoundDiv(total_processing_time, 10 * successful_operations)
            ELSE 0
    IN  [total_agent_calls |-> agent_calls,
         papers_processed |-> papers_processed,
         total_processing_time_seconds |-> RoundDiv(total_processing_time, 10),
         average_processing_time_seconds |-> avg_processing_time,
         successful_operations |-> successful_operations,
         failed_operations |-> failed_operations,
         success_rate_percent |-> success_rate]

\* the call reads the clock, which has advanced by d
Called(op, d) ==
    /\ ncalls < MaxOps
    /\ now + d <= MaxClock
    /\ now' = now + d
    /\ ncalls' = ncalls + 1
    /\ lastOp' = op
    /\ prevOp' = lastOp

\* a variant that keeps the first pending timestamp instead of overwriting it
before_agent_callback_keep_first ==
    \E d \in TickSteps :
        /\ Called("start", d)
        /\ agent_calls' = agent_calls + 1
        /\ start_time' = IF start_time = <<>> THEN <<now'>> ELSE start_time
        /\ raised' = FALSE
        /\ open' = Append(open, now')
        /\ lastStartClock' = now'
        /\ overlapped' = (overlapped \/ open # <<>>)
        /\ UNCHANGED <<papers_processed, total_processing_time,
                       successful_operations, failed_operations, lastSummary,
                       completed, trueTotal, lost, spurious>>

before_agent_callback ==
    \E d \in TickSteps :
        /\ Called("start", d)
        /\ agent_calls' = agent_calls + 1
        /\ start_time' = <<now'>>
        /\ raised' = FALSE
        /\ open' = Append(open, now')
        /\ lastStartClock' = now'
        /\ overlapped' = (overlapped \/ open # <<>>)
        /\ UNCHANGED <<papers_processed, total_processing_time,
                       successful_operations, failed_operations, lastSummary,
                       completed, trueTotal, lost, spurious>>

\* which operation an after_agent_callback ends: any one in flight, or none
EndsOperation ==
    \/ /\ open = <<>>
       /\ spurious' = TRUE
       /\ UNCHANGED <<open, completed, trueTotal, lost>>
    \/ \E i \in DOMAIN open :
           /\ open' = RemoveAt(open, i)
           /\ completed' = completed + 1
           /\ trueTotal' = trueTotal + (now' - open[i])
           /\ lost' = lost + (lastStartClock - open[i])
           /\ UNCHANGED spurious

\* a variant without the guard of line 255: datetime.now() - None raises
after_agent_callback_unguarded ==
    \E d \in TickSteps :
        /\ Called("end", d)
        /\ IF start_time # <<>>
           THEN /\ total_processing_time' =
                       total_processing_time + (now' - start_time[1])
                /\ successful_operations' = successful_operations + 1
                /\ raised' = FALSE
           ELSE /\ raised' = TRUE
                /\ UNCHANGED <<total_processing_time, successful_operations>>
        /\ EndsOperation
        /\ UNCHANGED <<agent_calls, papers_processed, failed_operations,
                       start_time, lastSummary, lastStartClock, overlapped>>

\* a variant that counts an operation of zero duration as failed
after_agent_callback_fails_on_zero ==
    \E d \in TickSteps :
        /\ Called("end", d)
        /\ IF start_time # <<>>
           THEN /\ total_processing_time' =
                       total_processing_time + (now' - start_time[1])
                /\ IF now' = start_time[1]
                   THEN /\ failed_operations' = failed_operations + 1
                        /\ UNCHANGED successful_operations
                   ELSE /\ successful_operations' = successful_operations + 1
                        /\ UNCHANGED failed_operations
           ELSE UNCHANGED <<total_processing_time, successful_operations,
                            failed_operations>>
        /\ raised' = FALSE
        /\ EndsOperation
        /\ UNCHANGED <<agent_calls, papers_processed,
                       start_time, lastSummary, lastStartClock, overlapped>>

\* a variant that counts an end without a pending start as a failure
after_agent_callback_counts_failure ==
    \E d \in TickSteps :
        /\ Called("end", d)
        /\ IF start_time # <<>>
           THEN /\ total_processing_time' =
                       total_processing_time + (now' - start_time[1])
                /\ successful_operations' = successful_operations + 1
                /\ UNCHANGED failed_operations
           ELSE /\ failed_operations' = failed_operations + 1
                /\ UNCHANGED <<total_processing_time, successful_operations>>
        /\ raised' = FALSE
        /\ EndsOperation
        /\ UNCHANGED <<agent_calls, papers_processed,
                       start_time, lastSummary, lastStartClock, overlapped>>

after_agent_callback ==
    \E d \in TickSteps :
        /\ Called("end", d)
        /\ IF start_time # <<>>
           THEN /\ total_processing_time' =
                       total_processing_time + (now' - start_time[1])
                /\ successful_operations' = successful_operations + 1
           ELSE UNCHANGED <<total_processing_time, successful_operations>>
        /\ raised' = FALSE
        /\ EndsOperation
        /\ UNCHANGED <<agent_calls, papers_processed, failed_operations,
                       start_time, lastSummary, lastStartClock, overlapped>>

\* a variant that reports the time and starts the next reporting period
get_metrics_summary_resets_time ==
    /\ Called("summary", 0)
    /\ lastSummary' = MetricsSummary
    /\ total_processing_time' = 0
    /\ raised' = FALSE
    /\ UNCHANGED <<agent_calls, papers_processed, successful_operations,
                   failed_operations, start_time, metricsHist>>

get_metrics_summary ==
    /\ Called("summary", 0)
    /\ lastSummary' = MetricsSummary
    /\ raised' = FALSE
    /\ UNCHANGED <<metricsFields, start_time, metricsHist>>

-----------------------------------------------------------------------------
(* calculate_relevance_score *)

\* str.lower() on the letters the inputs use
UpperLetters == <<"A", "B", "E", "Q">>
LowerLetters == <<"a", "b", "e", "q">>
LowerChar(c) ==
    IF \E i \in DOMAIN UpperLetters : UpperLetters[i] = c
    THEN LowerLetters[CHOOSE i \in DOMAIN UpperLetters : UpperLetters[i] = c]
    ELSE c
Lower(str) == [i \in DOMAIN str |-> LowerChar(str[i])]

\* Python's `k in t` on strings: k occurs in t as a contiguous substring
IsSubstring(k, t) ==
    \E i \in 0..(Len(t) - Len(k)) : SubSeq(t, i + 1, i + Len(k)) = k

\* timedelta.days counts whole days, rounding towards minus infinity
HoursPerDay == 24
DaysOld(nowH, pubH) == (nowH - pubH) \div HoursPerDay

\* paper["published"] after line 209: the key is missing (KeyError), the
\* string is no ISO timestamp (ValueError), or it parses to a time in hours
Missing == [kind |-> "missing", t |-> 0]
Unparseable == [kind |-> "unparseable", t |-> 0]
Parsed(h) == [kind |-> "parsed", t |-> h]

\* ---- the inputs the scorer is run on
Alphabet == {"a", "B"}
StrsOfLen(n) == [1..n -> Alphabet]
Strs(n) == UNION {StrsOfLen(k) : k \in 0..n}
SeqsUpTo(S, n) == UNION {[1..k -> S] : k \in 0..n}

EvalTimes == {720}
\* published one hour after evaluation, at it, and just inside and outside
\* the 7 and 30 day windows
PublishedTimes == {721, 720, 553, 552, 1, 0}
Publications == {Missing, Unparseable} \cup {Parsed(h) : h \in PublishedTimes}

Titles == Strs(MaxTitleLen)
Abstracts == {<<>>, <<"a">>, <<"B", "a">>}
KeywordPool == {<<>>, <<"a">>, <<"B">>, <<"b", "a">>}
KeywordLists == SeqsUpTo(KeywordPool, MaxKeywords)

\* the example of the tests: "Quantum Entanglement" scored on
\* ["quantum", "entanglement"]
ExampleTitle == <<"Q","u","a","n","t","u","m"," ",
                  "E","n","t","a","n","g","l","e","m","e","n","t">>
ExampleKeywords == << <<"q","u","a","n","t","u","m">>,
                      <<"e","n","t","a","n","g","l","e","m","e","n","t">> >>
ExampleAbstracts == {<<"a">>,
                     <<"q","u","a","n","t","u","m"," ",
                       "e","n","t","a","n","g","l","e","m","e","n","t">>}

NoPaper == [title |-> <<>>, abstract |-> <<>>, published |-> Missing]

\* the scorer is not running
ScoreIdle ==
    /\ paper = NoPaper
    /\ user_keywords = <<>>
    /\ evalNow = 0
    /\ score = 0
    /\ kwIdx = 1
    /\ scorePc = "idle"
    /\ scoreResult = 0

\* entry of calculate_relevance_score (line 195) on some paper and keywords
InitScore ==
    /\ \/ /\ paper \in [title : Titles, abstract : Abstracts,
                        published : Publications]
          /\ user_keywords \in KeywordLists
       \/ /\ paper \in [title : {ExampleTitle}, abstract : ExampleAbstracts,
                        published : Publications]
          /\ user_keywords = ExampleKeywords
    /\ evalNow \in EvalTimes
    /\ score = 0
    /\ kwIdx = 1
    /\ scorePc = "loop"
    /\ scoreResult = 0

\* a variant with `elif` on line 204: the abstract counts only without a
\* title match
ScoreKeyword_elif ==
    /\ scorePc = "loop"
    /\ kwIdx <= Len(user_keywords)
    /\ LET keyword_lower == Lower(user_keywords[kwIdx])
           inTitle == IsSubstring(keyword_lower, Lower(paper.title))
           inAbstract == IsSubstring(keyword_lower, Lower(paper.abstract))
       IN  score' = score + (IF inTitle THEN 20
                             ELSE IF inAbstract THEN 10 ELSE 0)
    /\ kwIdx' = kwIdx + 1
    /\ UNCHANGED <<paper, user_keywords, evalNow, scorePc, scoreResult>>

\* a variant that forgets to lower-case the title
ScoreKeyword_title_case_sensitive ==
    /\ scorePc = "loop"
    /\ kwIdx <= Len(user_keywords)
    /\ LET keyword_lower == Lower(user_keywords[kwIdx])
           inTitle == IsSubstring(keyword_lower, paper.title)
           inAbstract == IsSubstring(keyword_lower, Lower(paper.abstract))
       IN  score' = score + (IF inTitle THEN 20 ELSE 0)
                          + (IF inAbstract THEN 10 ELSE 0)
    /\ kwIdx' = kwIdx + 1
    /\ UNCHANGED <<paper, user_keywords, evalNow, scorePc, scoreResult>>

\* one iteration of the loop of lines 200-205
ScoreKeyword ==
    /\ scorePc = "loop"
    /\ kwIdx <= Len(user_keywords)
    /\ LET keyword_lower == Lower(user_keywords[kwIdx])
           inTitle == IsSubstring(keyword_lower, Lower(paper.title))
           inAbstract == IsSubstring(keyword_lower, Lower(paper.abstract))
       IN  score' = score + (IF inTitle THEN 20 ELSE 0)
                          + (IF inAbstract THEN 10 ELSE 0)
    /\ kwIdx' = kwIdx + 1
    /\ UNCHANGED <<paper, user_keywords, evalNow, scorePc, scoreResult>>

\* a variant whose except clause names ValueError only: the KeyError of a
\* paper without "published" leaves the function
ScoreRecency_catches_value_error_only ==
    /\ scorePc = "loop"
    /\ kwIdx > Len(user_keywords)
    /\ IF paper.published.kind = "parsed"
       THEN LET days_old == DaysOld(evalNow, paper.published.t)
            IN  score' = IF days_old < 7 THEN score + 15
                         ELSE IF days_old < 30 THEN score + 10
                         ELSE score
       ELSE score' = score
    /\ scorePc' = IF paper.published.kind = "missing" THEN "raised" ELSE "cap"
    /\ UNCHANGED <<paper, user_keywords, evalNow, kwIdx, scoreResult>>

\* the try block of lines 208-216, entered when the loop is exhausted; the
\* bare except of line 215 swallows what line 209 raises
ScoreRecency ==
    /\ scorePc = "loop"
    /\ kwIdx > Len(user_keywords)
    /\ IF paper.published.kind = "parsed"
       THEN LET days_old == DaysOld(evalNow, paper.published.t)
            IN  score' = IF days_old < 7 THEN score + 15
                         ELSE IF days_old < 30 THEN score + 10
                         ELSE score
       ELSE score' = score
    /\ scorePc' = "cap"
    /\ UNCHANGED <<paper, user_keywords, evalNow, kwIdx, scoreResult>>

\* a variant that returns the score uncapped
ScoreReturn_uncapped ==
    /\ scorePc = "cap"
    /\ scoreResult' = score
    /\ scorePc' = "done"
    /\ UNCHANGED <<paper, user_keywords, evalNow, score, kwIdx>>

\* line 219
ScoreReturn ==
    /\ scorePc = "cap"
    /\ scoreResult' = Min(score, 100)
    /\ scorePc' = "done"
    /\ UNCHANGED <<paper, user_keywords, evalNow, score, kwIdx>>

-----------------------------------------------------------------------------
(* extract_latex_equations *)

\* the environment delimiters are kept as one token each: no other text
\* overlaps an occurrence of one of them
BeginEquation == "\\begin{equation}"
EndEquation == "\\end{equation}"
BeginAlign == "\\begin{align}"
EndAlign == "\\end{align}"

\* the patterns of lines 159-164, as (opening, closing) delimiters around a
\* lazy (.*?) under re.DOTALL
Patterns == <<[open |-> <<"$", "$">>, close |-> <<"$", "$">>],
              [open |-> <<"$">>, close |-> <<"$">>],
              [open |-> <<BeginEquation>>, close |-> <<EndEquation>>],
              [open |-> <<BeginAlign>>, close |-> <<EndAlign>>]>>

\* the same patterns with the inline one listed first
PatternsInlineFirst == <<Patterns[2], Patterns[1], Patterns[3], Patterns[4]>>

\* delimiter d occurs in t at position i
MatchAt(t, d, i) ==
    /\ i + Len(d) - 1 <= Len(t)
    /\ SubSeq(t, i, i + Len(d) - 1) = d

\* re.findall(open(.*?)close, t, re.DOTALL) from position pos on: the
\* leftmost opening delimiter that some closing delimiter follows, the group
\* up to the nearest such closing delimiter, then on from behind it
RECURSIVE FindAll(_, _, _)
FindAll(t, pat, pos) ==
    LET closes(i) == {j \in (i + Len(pat.open))..Len(t) :
                          MatchAt(t, pat.close, j)}
        starts == {i \in pos..Len(t) :
                       MatchAt(t, pat.open, i) /\ closes(i) # {}}
    IN  IF starts = {} THEN <<>>
        ELSE LET i == CHOOSE x \in starts : \A y \in starts : x <= y
                 j == CHOOSE x \in closes(i) : \A y \in closes(i) : x <= y
             IN  <<SubSeq(t, i + Len(pat.open), j - 1)>>
                     \o FindAll(t, pat, j + Len(pat.close))

\* str.strip()
Whitespace == {" ", "\n"}
RECURSIVE StripLeft(_)
StripLeft(str) ==
    IF str # <<>> /\ Head(str) \in Whitespace THEN StripLeft(Tail(str)) ELSE str
RECURSIVE StripRight(_)
StripRight(str) ==
    IF str # <<>> /\ str[Len(str)] \in Whitespace
    THEN StripRight(SubSeq(str, 1, Len(str) - 1))
    ELSE str
Strip(str) == StripRight(StripLeft(str))

NonEmpty(str) == str # <<>>

\* [m.strip() for m in matches if m.strip()] of line 169
StrippedMatches(matches) ==
    SelectSeq([i \in DOMAIN matches |-> Strip(matches[i])], NonEmpty)

\* ---- the texts the extractor is run on
TextAlphabet == {"$", "x", " ", BeginEquation, EndEquation,
                 BeginAlign, EndAlign}
\* "$x$ $x$"
TextRepeated == <<"$", "x", "$", " ", "$", "x", "$">>
\* "$$a=b$$ and $c=d$"
TextDisplayInline == <<"$", "$", "a", "=", "b", "$", "$", " ", "a", "n", "d",
                       " ", "$", "c", "=", "d", "$">>
\* "$c$ $$a$$": the inline block stands before the display block
TextInlineBeforeDisplay == <<"$", "c", "$", " ", "$", "$", "a", "$", "$">>
\* "$x$ $y$ $x$"
TextFirstOccurrence == <<"$", "x", "$", " ", "$", "y", "$", " ",
                         "$", "x", "$">>
\* "$ $$ x$": a blank candidate and one to trim
TextBlankAndPadded == <<"$", " ", "$", "$", " ", "x", "$">>
\* "\begin{align}y\end{align}$x$\begin{equation}x\end{equation}"
TextEnvironments == <<BeginAlign, "y", EndAlign, "$", "x", "$",
                      BeginEquation, "x", EndEquation>>
ExampleTexts == {TextRepeated, TextDisplayInline, TextInlineBeforeDisplay,
                 TextFirstOccurrence, TextBlankAndPadded, TextEnvironments}
Texts == UNION {[1..k -> TextAlphabet] : k \in 0..MaxTextLen} \cup ExampleTexts

\* the extractor is not running
ExtractIdle ==
    /\ text = <<>>
    /\ exPc = "idle"
    /\ patIdx = 1
    /\ equations = <<>>
    /\ seen = {}
    /\ unique_equations = <<>>
    /\ dedupIdx = 1
    /\ exResult = <<>>

\* entry of extract_latex_equations (line 166) on some text
InitExtract ==
    /\ text \in Texts
    /\ exPc = "patterns"
    /\ patIdx = 1
    /\ equations = <<>>
    /\ seen = {}
    /\ unique_equations = <<>>
    /\ dedupIdx = 1
    /\ exResult = <<>>

\* a variant that tries the inline pattern before the display pattern
ExtractPattern_inline_first ==
    /\ exPc = "patterns"
    /\ patIdx <= Len(Patterns)
    /\ LET matches == FindAll(text, PatternsInlineFirst[patIdx], 1)
       IN  equations' = equations \o StrippedMatches(matches)
    /\ patIdx' = patIdx + 1
    /\ exPc' = IF patIdx = Len(Patterns) THEN "dedup" ELSE "patterns"
    /\ UNCHANGED <<text, seen, unique_equations, dedupIdx, exResult>>

\* a variant that filters on m instead of m.strip()
ExtractPattern_filter_before_strip ==
    /\ exPc = "patterns"
    /\ patIdx <= Len(Patterns)
    /\ LET matches == FindAll(text, Patterns[patIdx], 1)
           kept == SelectSeq(matches, NonEmpty)
       IN  equations' = equations \o [i \in DOMAIN kept |-> Strip(kept[i])]
    /\ patIdx' = patIdx + 1
    /\ exPc' = IF patIdx = Len(Patterns) THEN "dedup" ELSE "patterns"
    /\ UNCHANGED <<text, seen, unique_equations, dedupIdx, exResult>>

\* one iteration of the loop of lines 167-169
ExtractPattern ==
    /\ exPc = "patterns"
    /\ patIdx <= Len(Patterns)
    /\ LET matches == FindAll(text, Patterns[patIdx], 1)
       IN  equations' = equations \o StrippedMatches(matches)
    /\ patIdx' = patIdx + 1
    /\ exPc' = IF patIdx = Len(Patterns) THEN "dedup" ELSE "patterns"
    /\ UNCHANGED <<text, seen, unique_equations, dedupIdx, exResult>>

\* a variant that forgets seen.add(eq)
ExtractDedup_never_seen ==
    /\ exPc = "dedup"
    /\ dedupIdx <= Len(equations)
    /\ LET eq == equations[dedupIdx]
       IN  IF eq \notin seen
           THEN unique_equations' = Append(unique_equations, eq)
           ELSE UNCHANGED unique_equations
    /\ dedupIdx' = dedupIdx + 1
    /\ UNCHANGED <<text, exPc, patIdx, equations, seen, exResult>>

\* one iteration of the loop of lines 174-177
ExtractDedup ==
    /\ exPc = "dedup"
    /\ dedupIdx <= Len(equations)
    /\ LET eq == equations[dedupIdx]
       IN  IF eq \notin seen
           THEN /\ seen' = seen \cup {eq}
                /\ unique_equations' = Append(unique_equations, eq)
           ELSE UNCHANGED <<seen, unique_equations>>
    /\ dedupIdx' = dedupIdx + 1
    /\ UNCHANGED <<text, exPc, patIdx, equations, exResult>>

\* line 179
ExtractReturn ==
    /\ exPc = "dedup"
    /\ dedupIdx > Len(equations)
    /\ exResult' = unique_equations
    /\ exPc' = "done"
    /\ UNCHANGED <<text, patIdx, equations, seen, unique_equations, dedupIdx>>

-----------------------------------------------------------------------------
(* AgentEvaluator, fetch_arxiv_papers, QuantumPhysicsAgentSystem: not running *)

\* {}
EmptyDict == [k \in {} |-> 0]

EvalIdle ==
    /\ metricsIn = EmptyDict
    /\ evalPc = "idle"
    /\ ratings = EmptyDict

RetrievalIdle ==
    /\ rqPapers = <<>>
    /\ rqKeywords = <<>>
    /\ rqPc = "idle"
    /\ rqIdx = 1
    /\ relevant_count = 0
    /\ rqResult = [num |-> 0, den |-> 1]

FetchIdle ==
    /\ network = "ok"
    /\ feedDoc = [wellformed |-> TRUE, entries |-> <<>>]
    /\ fetchPc = "idle"
    /\ fetchIdx = 1
    /\ papers = <<>>
    /\ fetchResult = <<>>
    /\ fetchRaised = FALSE

SystemIdle ==
    /\ qPc = "idle"
    /\ queryOwnCalls = 0
    /\ queryMetrics = <<>>

-----------------------------------------------------------------------------
(* The plugin's specification *)

\* what a specification of one component leaves alone
notMetricsVars == <<scoreVars, extractVars, evalVars, retrievalVars,
                    fetchVars, systemVars>>
notScoreVars == <<metricsVars, extractVars, evalVars, retrievalVars,
                  fetchVars, systemVars>>
notExtractVars == <<metricsVars, scoreVars, evalVars, retrievalVars,
                    fetchVars, systemVars>>
notEvalVars == <<metricsVars, scoreVars, extractVars, retrievalVars,
                 fetchVars, systemVars>>
notRetrievalVars == <<metricsVars, scoreVars, extractVars, evalVars,
                      fetchVars, systemVars>>
notFetchVars == <<metricsVars, scoreVars, extractVars, evalVars,
                  retrievalVars, systemVars>>
notSystemVars == <<scoreVars, extractVars, evalVars, retrievalVars, fetchVars>>

Init ==
    /\ InitMetrics /\ ScoreIdle /\ ExtractIdle
    /\ EvalIdle /\ RetrievalIdle /\ FetchIdle /\ SystemIdle

Next ==
    \/ before_agent_callback /\ UNCHANGED notMetricsVars
    \/ after_agent_callback /\ UNCHANGED notMetricsVars
    \/ get_metrics_summary /\ UNCHANGED notMetricsVars

Spec == Init /\ [][Next]_vars

-----------------------------------------------------------------------------
(* The scorer's specification *)

InitScoring ==
    /\ InitMetrics /\ InitScore /\ ExtractIdle
    /\ EvalIdle /\ RetrievalIdle /\ FetchIdle /\ SystemIdle

NextScore ==
    \/ ScoreKeyword /\ UNCHANGED notScoreVars
    \/ ScoreRecency /\ UNCHANGED notScoreVars
    \/ ScoreReturn /\ UNCHANGED notScoreVars

SpecScore == InitScoring /\ [][NextScore]_vars

-----------------------------------------------------------------------------
(* The extractor's specification *)

InitExtracting ==
    /\ InitMetrics /\ ScoreIdle /\ InitExtract
    /\ EvalIdle /\ RetrievalIdle /\ FetchIdle /\ SystemIdle

NextExtract ==
    \/ ExtractPattern /\ UNCHANGED notExtractVars
    \/ ExtractDedup /\ UNCHANGED notExtractVars
    \/ ExtractReturn /\ UNCHANGED notExtractVars

SpecExtract == InitExtracting /\ [][NextExtract]_vars

-----------------------------------------------------------------------------
(* AgentEvaluator.evaluate_performance *)
(* Times and rates are in hundredths here too: 500 is 5 seconds, 9500 is   *)
(* 95 percent.                                                             *)

\* dict.get(key, default)
Get(d, key, default) == IF key \in DOMAIN d THEN d[key] ELSE default

\* d[key] = value
Put(d, key, value) ==
    [k \in DOMAIN d \cup {key} |-> IF k = key THEN value ELSE d[k]]

\* lines 597-605
SpeedRating(metrics) ==
    LET avg_time == Get(metrics, "average_processing_time_seconds", 99900)
    IN  IF avg_time < 500 THEN "Excellent"
        ELSE IF avg_time < 1500 THEN "Good"
        ELSE IF avg_time < 3000 THEN "Acceptable"
        ELSE "Needs Improvement"

\* a variant that compares the success rate with > instead of >=
ReliabilityRating_strictly_above(metrics) ==
    LET success_rate == Get(metrics, "success_rate_percent", 0)
    IN  IF success_rate > 9500 THEN "Excellent"
        ELSE IF success_rate > 8500 THEN "Good"
        ELSE IF success_rate > 7000 THEN "Acceptable"
        ELSE "Needs Improvement"

\* lines 608-616
ReliabilityRating(metrics) ==
    LET success_rate == Get(metrics, "success_rate_percent", 0)
    IN  IF success_rate >= 9500 THEN "Excellent"
        ELSE IF success_rate >= 8500 THEN "Good"
        ELSE IF success_rate >= 7000 THEN "Acceptable"
        ELSE "Needs Improvement"

\* ---- the metrics the evaluator is run on: each key absent (<<>>) or
\* present with a value at or next to a threshold
AvgTimes == {0, 300, 499, 500, 1050, 1499, 1500, 2999, 3000, 99900}
SuccessRates == {0, 6999, 7000, 8499, 8500, 9499, 9500, 9600, 10000}
Optional(S) == {<<>>} \cup {<<v>> : v \in S}
MetricsDict(a, r) ==
    [k \in (IF a = <<>> THEN {} ELSE {"average_processing_time_seconds"})
           \cup (IF r = <<>> THEN {} ELSE {"success_rate_percent"})
       |-> IF k = "average_processing_time_seconds" THEN a[1] ELSE r[1]]

\* entry of evaluate_performance (line 594) on some metrics
InitEval ==
    /\ \E a \in Optional(AvgTimes), r \in Optional(SuccessRates) :
           metricsIn = MetricsDict(a, r)
    /\ evalPc = "speed"
    /\ ratings = EmptyDict

\* lines 596-605
EvaluateSpeed ==
    /\ evalPc = "speed"
    /\ ratings' = Put(ratings, "speed", SpeedRating(metricsIn))
    /\ evalPc' = "reliability"
    /\ UNCHANGED metricsIn

\* lines 607-618
EvaluateReliability ==
    /\ evalPc = "reliability"
    /\ ratings' = Put(ratings, "reliability", ReliabilityRating(metricsIn))
    /\ evalPc' = "done"
    /\ UNCHANGED metricsIn

InitEvaluating ==
    /\ InitMetrics /\ ScoreIdle /\ ExtractIdle
    /\ InitEval /\ RetrievalIdle /\ FetchIdle /\ SystemIdle

NextEval ==
    \/ EvaluateSpeed /\ UNCHANGED notEvalVars
    \/ EvaluateReliability /\ UNCHANGED notEvalVars

SpecEval == InitEvaluating /\ [][NextEval]_vars

-----------------------------------------------------------------------------
(* AgentEvaluator.evaluate_retrieval_quality *)
(* The returned float is kept as the exact fraction num / den.             *)

\* a variant that joins title and abstract with nothing in between
PaperText_concatenated(p) == Lower(p.title \o p.abstract)

\* f"{paper['title']} {paper['abstract']}".lower() of line 566
PaperText(p) == Lower(p.title \o <<" ">> \o p.abstract)

\* any(keyword.lower() in text for keyword in query_keywords) of line 567
AnyKeywordIn(keywords, t) ==
    \E i \in DOMAIN keywords : IsSubstring(Lower(keywords[i]), t)

\* ---- the paper lists and keyword lists the evaluator is run on
MaxPapers == 3
MaxQueryKeywords == 2
PaperPool == {[title |-> t, abstract |-> a] : t \in {<<>>, <<"A">>},
                                              a \in {<<>>, <<"b">>}}
QueryKeywordPool == {<<"a", "b">>, <<"a", " ", "b">>, <<" ">>, <<"B">>}

\* entry of evaluate_retrieval_quality (line 555)
InitRetrieval ==
    /\ rqPapers \in SeqsUpTo(PaperPool, MaxPapers)
    /\ rqKeywords \in SeqsUpTo(QueryKeywordPool, MaxQueryKeywords)
    /\ rqPc = "start"
    /\ rqIdx = 1
    /\ relevant_count = 0
    /\ rqResult = [num |-> 0, den |-> 1]

\* lines 561-564
RetrievalEnter ==
    /\ rqPc = "start"
    /\ IF rqPapers = <<>>
       THEN /\ rqResult' = [num |-> 0, den |-> 1]
            /\ rqPc' = "done"
            /\ UNCHANGED relevant_count
       ELSE /\ relevant_count' = 0
            /\ rqPc' = "loop"
            /\ UNCHANGED rqResult
    /\ UNCHANGED <<rqPapers, rqKeywords, rqIdx>>

\* lines 565-568, one iteration of the loop
RetrievalPaper ==
    /\ rqPc = "loop"
    /\ rqIdx <= Len(rqPapers)
    /\ relevant_count' =
           IF AnyKeywordIn(rqKeywords, PaperText(rqPapers[rqIdx]))
           THEN relevant_count + 1
           ELSE relevant_count
    /\ rqIdx' = rqIdx + 1
    /\ UNCHANGED <<rqPapers, rqKeywords, rqPc, rqResult>>

\* line 570
RetrievalReturn ==
    /\ rqPc = "loop"
    /\ rqIdx > Len(rqPapers)
    /\ rqResult' = [num |-> relevant_count * 100, den |-> Len(rqPapers)]
    /\ rqPc' = "done"
    /\ UNCHANGED <<rqPapers, rqKeywords, rqIdx, relevant_count>>

InitRetrieving ==
    /\ InitMetrics /\ ScoreIdle /\ ExtractIdle
    /\ EvalIdle /\ InitRetrieval /\ FetchIdle /\ SystemIdle

NextRetrieval ==
    \/ RetrievalEnter /\ UNCHANGED notRetrievalVars
    \/ RetrievalPaper /\ UNCHANGED notRetrievalVars
    \/ RetrievalReturn /\ UNCHANGED notRetrievalVars

SpecRetrieval == InitRetrieving /\ [][NextRetrieval]_vars

-----------------------------------------------------------------------------
(* fetch_arxiv_papers *)
(* What the network and the feed hold is the environment's choice.  An     *)
(* element or attribute of an entry is <<>> when the feed lacks it and     *)
(* <<value>> when it is there; "/abs/" is one token of an id.              *)

Abs == "/abs/"

\* str.split("/abs/")[-1] of line 110: what follows the last "/abs/"
RECURSIVE AfterLast(_, _)
AfterLast(str, sep) ==
    IF \E i \in DOMAIN str : str[i] = sep
    THEN AfterLast(SubSeq(str, (CHOOSE i \in DOMAIN str : str[i] = sep) + 1,
                          Len(str)), sep)
    ELSE str

\* lines 110-125 run without an AttributeError or KeyError: every element
\* that is dereferenced is there
Mappable(entry) ==
    /\ entry.id # <<>>
    /\ entry.title # <<>>
    /\ entry.summary # <<>>
    /\ entry.published # <<>>
    /\ \A i \in DOMAIN entry.authors : entry.authors[i] # <<>>
    /\ \A i \in DOMAIN entry.categories : entry.categories[i] # <<>>

\* the dictionary of lines 127-136
MapEntry(entry) ==
    LET paper_id == AfterLast(entry.id[1], Abs)
    IN  [id         |-> paper_id,
         title      |-> Strip(entry.title[1]),
         authors    |-> [i \in DOMAIN entry.authors |-> entry.authors[i][1]],
         abstract   |-> Strip(entry.summary[1]),
         published  |-> entry.published[1],
         arxiv_url  |-> <<"https://arxiv.org/abs/">> \o paper_id,
         pdf_url    |-> <<"https://arxiv.org/pdf/">> \o paper_id \o <<".pdf">>,
         categories |-> [i \in DOMAIN entry.categories |-> entry.categories[i][1]]]

\* ---- the feeds the fetcher is run on
MaxEntries == 3
EntryWithAbs ==
    [id |-> << <<"h", Abs, "1">> >>, title |-> << <<" ", "t", "\n">> >>,
     summary |-> << <<"s", " ">> >>, published |-> << <<"p">> >>,
     authors |-> << << <<"n">> >>, << <<"m">> >> >>,
     categories |-> << << <<"q">> >> >>]
EntryPlainId ==
    [id |-> << <<"2">> >>, title |-> << <<"u">> >>,
     summary |-> << <<"v">> >>, published |-> << <<"p">> >>,
     authors |-> <<>>, categories |-> <<>>]
EntryNoTitle ==
    [id |-> << <<"h", Abs, "3">> >>, title |-> <<>>,
     summary |-> << <<"s">> >>, published |-> << <<"p">> >>,
     authors |-> <<>>, categories |-> <<>>]
EntryNoTerm ==
    [id |-> << <<"h", Abs, "4">> >>, title |-> << <<"w">> >>,
     summary |-> << <<"s">> >>, published |-> << <<"p">> >>,
     authors |-> <<>>, categories |-> << <<>> >>]
EntryPool == {EntryWithAbs, EntryPlainId, EntryNoTitle, EntryNoTerm}
Feeds ==
    {[wellformed |-> FALSE, entries |-> <<>>]}
    \cup {[wellformed |-> TRUE, entries |-> es] :
              es \in SeqsUpTo(EntryPool, MaxEntries)}
Networks == {"ok", "urlerror", "timeout"}

\* entry of fetch_arxiv_papers (line 81)
InitFetch ==
    /\ network \in Networks
    /\ feedDoc \in Feeds
    /\ fetchPc = "request"
    /\ fetchIdx = 1
    /\ papers = <<>>
    /\ fetchResult = <<>>
    /\ fetchRaised = FALSE

\* lines 82-102: urlopen raises URLError or a timeout, or the body is read
FetchRequest ==
    /\ fetchPc = "request"
    /\ fetchPc' = IF network = "ok" THEN "parse" ELSE "except"
    /\ UNCHANGED <<network, feedDoc, fetchIdx, papers, fetchResult, fetchRaised>>

\* lines 105-108: ET.fromstring raises ParseError, or the loop is entered
FetchParse ==
    /\ fetchPc = "parse"
    /\ IF feedDoc.wellformed
       THEN /\ papers' = <<>>
            /\ fetchIdx' = 1
            /\ fetchPc' = "loop"
       ELSE /\ fetchPc' = "except"
            /\ UNCHANGED <<papers, fetchIdx>>
    /\ UNCHANGED <<network, feedDoc, fetchResult, fetchRaised>>

\* lines 109-136, one iteration of the loop
FetchEntry ==
    /\ fetchPc = "loop"
    /\ fetchIdx <= Len(feedDoc.entries)
    /\ IF Mappable(feedDoc.entries[fetchIdx])
       THEN /\ papers' = Append(papers, MapEntry(feedDoc.entries[fetchIdx]))
            /\ fetchIdx' = fetchIdx + 1
            /\ UNCHANGED fetchPc
       ELSE /\ fetchPc' = "except"
            /\ UNCHANGED <<papers, fetchIdx>>
    /\ UNCHANGED <<network, feedDoc, fetchResult, fetchRaised>>

\* lines 138-139
FetchReturn ==
    /\ fetchPc = "loop"
    /\ fetchIdx > Len(feedDoc.entries)
    /\ fetchResult' = papers
    /\ fetchPc' = "done"
    /\ UNCHANGED <<network, feedDoc, fetchIdx, papers, fetchRaised>>

\* a variant whose handler returns what was parsed before the failure
FetchExcept_returns_partial ==
    /\ fetchPc = "except"
    /\ fetchResult' = papers
    /\ fetchPc' = "done"
    /\ UNCHANGED <<network, feedDoc, fetchIdx, papers, fetchRaised>>

\* lines 141-143
FetchExcept ==
    /\ fetchPc = "except"
    /\ fetchResult' = <<>>
    /\ fetchPc' = "done"
    /\ UNCHANGED <<network, feedDoc, fetchIdx, papers, fetchRaised>>

InitFetching ==
    /\ InitMetrics /\ ScoreIdle /\ ExtractIdle
    /\ EvalIdle /\ RetrievalIdle /\ InitFetch /\ SystemIdle

NextFetch ==
    \/ FetchRequest /\ UNCHANGED notFetchVars
    \/ FetchParse /\ UNCHANGED notFetchVars
    \/ FetchEntry /\ UNCHANGED notFetchVars
    \/ FetchReturn /\ UNCHANGED notFetchVars
    \/ FetchExcept /\ UNCHANGED notFetchVars

SpecFetch == InitFetching /\ [][NextFetch]_vars

-----------------------------------------------------------------------------
(* QuantumPhysicsAgentSystem.process_research_query *)
(* The runner is the ADK's: while it runs a query it calls the callbacks   *)
(* of the plugins it was given, any number of times in any order, or       *)
(* raises.  Queries on one system run one after the other.                 *)

\* __init__ (lines 467-475): the plugin is created and handed to the runner
InitSystem ==
    /\ InitMetrics
    /\ qPc = "ready"
    /\ queryOwnCalls = 0
    /\ queryMetrics = <<>>

\* a variant that gives every query a new MetricsPlugin
BeginQuery_fresh_plugin ==
    /\ qPc = "ready"
    /\ qPc' = "running"
    /\ queryOwnCalls' = 0
    /\ agent_calls' = 0
    /\ papers_processed' = 0
    /\ total_processing_time' = 0
    /\ successful_operations' = 0
    /\ failed_operations' = 0
    /\ start_time' = <<>>
    /\ UNCHANGED <<queryMetrics, metricsEnv, metricsHist>>

\* lines 500-515, up to the call of runner.run
BeginQuery ==
    /\ qPc = "ready"
    /\ qPc' = "running"
    /\ queryOwnCalls' = 0
    /\ UNCHANGED <<queryMetrics, metricsVars>>

\* line 515: the runner calls before_agent_callback of self.metrics_plugin
RunnerBefore ==
    /\ qPc = "running"
    /\ before_agent_callback
    /\ queryOwnCalls' = queryOwnCalls + 1
    /\ UNCHANGED <<qPc, queryMetrics>>

\* line 515: the runner calls after_agent_callback of self.metrics_plugin
RunnerAfter ==
    /\ qPc = "running"
    /\ after_agent_callback
    /\ UNCHANGED systemVars

\* line 515: runner.run raises, and process_research_query with it
QueryRaises ==
    /\ qPc = "running"
    /\ qPc' = "ready"
    /\ UNCHANGED <<queryOwnCalls, queryMetrics, metricsVars>>

\* lines 517-525: runner.run returned; the summary is taken and returned
EndQuery ==
    /\ qPc = "running"
    /\ get_metrics_summary
    /\ queryMetrics' = Append(queryMetrics, [metrics |-> MetricsSummary,
                                             ownCalls |-> queryOwnCalls])
    /\ qPc' = "ready"
    /\ UNCHANGED queryOwnCalls

InitQuerying ==
    /\ InitSystem /\ ScoreIdle /\ ExtractIdle
    /\ EvalIdle /\ RetrievalIdle /\ FetchIdle

NextSystem ==
    \/ BeginQuery /\ UNCHANGED notSystemVars
    \/ RunnerBefore /\ UNCHANGED notSystemVars
    \/ RunnerAfter /\ UNCHANGED notSystemVars
    \/ QueryRaises /\ UNCHANGED notSystemVars
    \/ EndQuery /\ UNCHANGED notSystemVars

SpecSystem == InitQuerying /\ [][NextSystem]_vars

-----------------------------------------------------------------------------
(* Properties of MetricsPlugin, checked under Spec *)

\* the step is a call of after_agent_callback / get_metrics_summary
IsEnd == ncalls' = ncalls + 1 /\ lastOp' = "end"
IsSummary == ncalls' = ncalls + 1 /\ lastOp' = "summary"

\* start and end calls so far came in strictly alternating pairs
Alternating == ~overlapped /\ ~spurious

\* C1: after any sequence of before_agent_callback and after_agent_callback
\* calls, successful_operations + failed_operations never exceeds
\* agent_calls + 1.
C1_OpsBoundedByCalls ==
    successful_operations + failed_operations <= agent_calls + 1

\* C2: after_agent_callback with a start timestamp pending adds the elapsed
\* time, adds one to successful_operations and clears the timestamp, so that
\* an after_agent_callback right after another one changes no counter.
C2_EndClearsPending ==
    [][/\ (IsEnd /\ start_time # <<>>) =>
              /\ total_processing_time' =
                     total_processing_time + (now' - start_time[1])
              /\ successful_operations' = successful_operations + 1
              /\ start_time' = <<>>
       /\ (IsEnd /\ lastOp = "end") => UNCHANGED metricsFields]_vars

\* C3: after_agent_callback with no start timestamp pending raises nothing
\* and leaves the five counters and the timestamp slot as they were.
C3_EndWithoutStartIsNoOp ==
    [][(IsEnd /\ start_time = <<>>) =>
           /\ raised' = FALSE
           /\ UNCHANGED <<metricsFields, start_time>>]_vars

\* after_agent_callback was called on a plugin no operation was started on
C3_Witness ==
    /\ lastOp = "end"
    /\ agent_calls = 0
    /\ start_time = <<>>
    /\ ~raised

\* C4: failed_operations stays 0, and the summary's success_rate_percent is
\* 100 once an operation has succeeded and 0 before.
C4_NeverFails ==
    LET want == IF successful_operations >= 1 THEN 10000 ELSE 0
    IN  /\ failed_operations = 0
        /\ MetricsSummary.success_rate_percent = want
        /\ MetricsSummary.failed_operations = 0
        /\ lastOp = "summary" => lastSummary.success_rate_percent = want

\* a summary taken after two operations ended reports 100 percent
C4_Witness ==
    /\ lastOp = "summary"
    /\ successful_operations = 2
    /\ lastSummary.success_rate_percent = 10000
    /\ lastSummary.failed_operations = 0

\* two operations ran overlapped (nested or interleaved) and both ended
TwoOverlappedDone ==
    /\ agent_calls = 2
    /\ overlapped
    /\ ~spurious
    /\ open = <<>>

\* there is one timestamp slot and it holds the most recent start
SingleSlot ==
    /\ Len(start_time) <= 1
    /\ agent_calls > 0 => start_time = <<lastStartClock>>

\* every after_agent_callback measures from the most recent start
MeasuresFromLastStart ==
    (IsEnd /\ agent_calls > 0) =>
        total_processing_time' =
            total_processing_time + (now' - lastStartClock)

C6_Counts(s) ==
    /\ s.total_agent_calls = completed
    /\ s.successful_operations = completed
    /\ s.success_rate_percent = (IF completed >= 1 THEN 10000 ELSE 0)
    /\ completed = 0 => s.average_processing_time_seconds = 0

\* C6 as stated: after n strictly alternating start/end pairs the summary
\* reports agent calls n, successes n, a total equal to the sum of the n gaps,
\* an average equal to that total / n, and 100 percent; all 0 for n = 0.
C6_ExactTimes ==
    (Alternating /\ open = <<>>) =>
        /\ C6_Counts(MetricsSummary)
        /\ MetricsSummary.total_processing_time_seconds * 10 = trueTotal
        /\ completed >= 1 =>
               MetricsSummary.average_processing_time_seconds * 10 * completed
                   = trueTotal

\* C6 as amended: the same counts and rate; the reported total is the sum of
\* the n gaps rounded to two decimals, and the reported average is that
\* (unrounded) sum / n rounded to two decimals.
C6_RoundedTimes ==
    (Alternating /\ open = <<>>) =>
        /\ C6_Counts(MetricsSummary)
        /\ MetricsSummary.total_processing_time_seconds = RoundDiv(trueTotal, 10)
        /\ completed >= 1 =>
               MetricsSummary.average_processing_time_seconds
                   = RoundDiv(trueTotal, 10 * completed)
        /\ lastOp = "summary" => lastSummary = MetricsSummary

\* one pair two seconds apart: the summary reports an average of 2.00 seconds
\* and 100 percent
C6_Witness ==
    /\ lastOp = "summary"
    /\ Alternating
    /\ open = <<>>
    /\ completed = 1
    /\ trueTotal = 2000
    /\ lastSummary.average_processing_time_seconds = 200
    /\ lastSummary.total_processing_time_seconds = 200
    /\ lastSummary.success_rate_percent = 10000

\* C7: get_metrics_summary changes no counter and not the timestamp slot, and
\* a call right after another one returns the same values.
C7_SummaryIsPureRead ==
    [][IsSummary =>
           /\ UNCHANGED <<metricsFields, start_time>>
           /\ lastSummary' = MetricsSummary
           /\ lastOp = "summary" => lastSummary' = lastSummary]_vars

\* two summaries in a row, taken after an operation ended
C7_Witness ==
    /\ lastOp = "summary"
    /\ prevOp = "summary"
    /\ successful_operations >= 1
    /\ total_processing_time > 0

-----------------------------------------------------------------------------
(* Properties of calculate_relevance_score, checked under SpecScore *)

\* the for loop has run over every keyword and the try block has not begun
LoopDone == scorePc = "loop" /\ kwIdx > Len(user_keywords)

\* what one keyword is worth on a paper
KeywordPoints(kw, p) ==
    (IF IsSubstring(Lower(kw), Lower(p.title)) THEN 20 ELSE 0)
  + (IF IsSubstring(Lower(kw), Lower(p.abstract)) THEN 10 ELSE 0)

\* S: the keywords' points summed over the sequence, repeats included
RECURSIVE KeywordSum(_, _)
KeywordSum(kws, p) ==
    IF kws = <<>> THEN 0
    ELSE KeywordPoints(Head(kws), p) + KeywordSum(Tail(kws), p)

\* R: 15 below 7 days of age, 10 below 30, else 0; 0 without a timestamp
RecencyBonus(p, nowH) ==
    IF p.published.kind # "parsed" THEN 0
    ELSE LET hoursOld == nowH - p.published.t
         IN  IF hoursOld < 7 * 24 THEN 15
             ELSE IF hoursOld < 30 * 24 THEN 10
             ELSE 0

\* C8: for every paper and keyword sequence (empty, repeated or empty-string
\* keywords, any publication timestamp) the returned score is in [0, 100].
C8_ScoreInRange ==
    scorePc = "done" => (0 <= scoreResult /\ scoreResult <= 100)

\* a score above 100 was capped, on a list holding an empty-string keyword
\* and a repeated keyword
C8_Witness ==
    /\ scorePc = "done"
    /\ score > 100
    /\ scoreResult = 100
    /\ \E i \in DOMAIN user_keywords : user_keywords[i] = <<>>
    /\ \E i, j \in DOMAIN user_keywords :
           i # j /\ user_keywords[i] = user_keywords[j]

\* C9: the returned score is min(100, S + R): S sums over the keyword
\* sequence 20 for a case-insensitive title match plus 10 for an abstract
\* match, R is the recency bonus, added once.
C9_ScoreFormula ==
    scorePc = "done" =>
        scoreResult = Min(100, KeywordSum(user_keywords, paper)
                               + RecencyBonus(paper, evalNow))

\* one keyword matched title and abstract of a paper between 7 and 30 days
\* old: 20 + 10 + 10
C9_Witness ==
    /\ scorePc = "done"
    /\ Len(user_keywords) = 1
    /\ KeywordPoints(user_keywords[1], paper) = 30
    /\ RecencyBonus(paper, evalNow) = 10
    /\ scoreResult = 40

\* the title contains every keyword, case-insensitively
TitleHasAll ==
    \A i \in DOMAIN user_keywords :
        IsSubstring(Lower(user_keywords[i]), Lower(paper.title))

IsExample == paper.title = ExampleTitle /\ user_keywords = ExampleKeywords

\* C10: when the title contains every keyword, the keyword score before the
\* recency bonus and the cap is at least 20 * |K| and the returned score at
\* least min(100, 20 * |K|); "Quantum Entanglement" on ["quantum",
\* "entanglement"] has base 40.
C10_TitleMatchFloor ==
    (scorePc # "idle" /\ TitleHasAll) =>
        /\ LoopDone => score >= 20 * Len(user_keywords)
        /\ scorePc = "done" =>
               scoreResult >= Min(100, 20 * Len(user_keywords))
        /\ (LoopDone /\ IsExample) =>
               /\ score >= 40
               /\ paper.abstract = <<"a">> => score = 40

\* the example, with an abstract that matches neither keyword, after the loop
C10_Witness ==
    /\ LoopDone
    /\ IsExample
    /\ TitleHasAll
    /\ paper.abstract = <<"a">>
    /\ score = 40

\* C11: with a publication timestamp that is absent or cannot be parsed the
\* scorer raises nothing and adds no recency bonus: it returns
\* min(100, keyword score).
C11_NoTimestampNoBonus ==
    (scorePc # "idle" /\ paper.published.kind # "parsed") =>
        /\ scorePc # "raised"
        /\ scorePc \in {"cap", "done"} =>
               score = KeywordSum(user_keywords, paper)
        /\ scorePc = "done" =>
               scoreResult = Min(100, KeywordSum(user_keywords, paper))

\* the paper of the tests, which has no "published" key, was scored 40
C11_Witness ==
    /\ scorePc = "done"
    /\ paper.published.kind = "missing"
    /\ IsExample
    /\ paper.abstract = <<"a">>
    /\ scoreResult = 40

-----------------------------------------------------------------------------
(* Properties of extract_latex_equations, checked under SpecExtract *)

NoDuplicates(seq) ==
    \A i, j \in DOMAIN seq : i # j => seq[i] # seq[j]

\* the entries of seq that no earlier entry equals, in their order
RECURSIVE FirstOccurrences(_, _)
FirstOccurrences(seq, n) ==
    IF n = 0 THEN <<>>
    ELSE LET before == FirstOccurrences(seq, n - 1)
         IN  IF \E j \in 1..(n - 1) : seq[j] = seq[n]
             THEN before
             ELSE Append(before, seq[n])

\* C12: the returned sequence holds no two equal strings and keeps the order
\* of first occurrence in the merged candidate list; "$x$ $x$" gives ["x"].
C12_DedupKeepsFirst ==
    exPc = "done" =>
        /\ NoDuplicates(exResult)
        /\ exResult = FirstOccurrences(equations, Len(equations))
        /\ text = TextRepeated => exResult = << <<"x">> >>

\* "$x$ $y$ $x$": three candidates, the repeated one kept where it came first
C12_Witness ==
    /\ exPc = "done"
    /\ text = TextFirstOccurrence
    /\ equations = << <<"x">>, <<"y">>, <<"x">> >>
    /\ exResult = << <<"x">>, <<"y">> >>

\* the candidates of one pattern, stripped, blank ones dropped
CandidatesOf(k) == StrippedMatches(FindAll(text, Patterns[k], 1))

\* C13: the candidates are merged pattern by pattern (display, inline,
\* equation, align), not by position in the text, and duplicates are removed
\* only from the merged list; "$$a=b$$ and $c=d$" gives ["a=b", "c=d"].
C13_PatternOrder ==
    exPc \in {"dedup", "done"} =>
        /\ equations = CandidatesOf(1) \o CandidatesOf(2)
                           \o CandidatesOf(3) \o CandidatesOf(4)
        /\ exPc = "done" =>
               exResult = FirstOccurrences(equations, Len(equations))
        /\ (exPc = "done" /\ text = TextDisplayInline) =>
               exResult = << <<"a", "=", "b">>, <<"c", "=", "d">> >>

\* "$c$ $$a$$": the display block comes first in the result though it stands
\* second in the text
C13_Witness ==
    /\ exPc = "done"
    /\ text = TextInlineBeforeDisplay
    /\ exResult = << <<"a">>, <<"c">> >>

\* C14: every returned string is non-empty and has no leading or trailing
\* whitespace; a candidate that is blank after stripping is not returned.
C14_NoBlankNoPadding ==
    exPc = "done" =>
        \A i \in DOMAIN exResult :
            /\ exResult[i] # <<>>
            /\ Head(exResult[i]) \notin Whitespace
            /\ exResult[i][Len(exResult[i])] \notin Whitespace

\* "$ $$ x$": the inline pattern finds " " and " x"; only "x" is returned
C14_Witness ==
    /\ exPc = "done"
    /\ text = TextBlankAndPadded
    /\ FindAll(text, Patterns[2], 1) = << <<" ">>, <<" ", "x">> >>
    /\ exResult = << <<"x">> >>

-----------------------------------------------------------------------------
(* Properties of evaluate_performance, checked under SpecEval *)

HasAvg == "average_processing_time_seconds" \in DOMAIN metricsIn
HasRate == "success_rate_percent" \in DOMAIN metricsIn

\* C15: speed is Excellent for t < 5, Good for 5 <= t < 15, Acceptable for
\* 15 <= t < 30, else Needs Improvement; reliability is Excellent for r >= 95,
\* Good for 85 <= r < 95, Acceptable for 70 <= r < 85, else Needs Improvement;
\* a missing key counts as t = 999 or r = 0 and rates Needs Improvement;
\* {3, 96} rates Excellent twice.
C15_RatingThresholds ==
    evalPc = "done" =>
        LET t == IF HasAvg THEN metricsIn["average_processing_time_seconds"]
                 ELSE 99900
            r == IF HasRate THEN metricsIn["success_rate_percent"] ELSE 0
        IN  /\ DOMAIN ratings = {"speed", "reliability"}
            /\ t < 500 => ratings["speed"] = "Excellent"
            /\ (500 <= t /\ t < 1500) => ratings["speed"] = "Good"
            /\ (1500 <= t /\ t < 3000) => ratings["speed"] = "Acceptable"
            /\ 3000 <= t => ratings["speed"] = "Needs Improvement"
            /\ r >= 9500 => ratings["reliability"] = "Excellent"
            /\ (8500 <= r /\ r < 9500) => ratings["reliability"] = "Good"
            /\ (7000 <= r /\ r < 8500) => ratings["reliability"] = "Acceptable"
            /\ r < 7000 => ratings["reliability"] = "Needs Improvement"
            /\ ~HasAvg => ratings["speed"] = "Needs Improvement"
            /\ ~HasRate => ratings["reliability"] = "Needs Improvement"
            /\ (t = 300 /\ r = 9600) =>
                   ratings = [speed |-> "Excellent", reliability |-> "Excellent"]

\* {average 3, rate 96} was rated Excellent for both
C15_Witness ==
    /\ evalPc = "done"
    /\ metricsIn = MetricsDict(<<300>>, <<9600>>)
    /\ ratings["speed"] = "Excellent"
    /\ ratings["reliability"] = "Excellent"

-----------------------------------------------------------------------------
(* Properties of evaluate_retrieval_quality, checked under SpecRetrieval *)

\* the papers whose title, one space and abstract, lower-cased, contain a
\* lower-cased keyword
MatchingJoined ==
    {i \in DOMAIN rqPapers :
        \E j \in DOMAIN rqKeywords :
            IsSubstring(Lower(rqKeywords[j]),
                        Lower(rqPapers[i].title \o <<" ">> \o rqPapers[i].abstract))}

\* the papers whose title directly followed by the abstract, lower-cased,
\* contain a lower-cased keyword
MatchingConcatenated ==
    {i \in DOMAIN rqPapers :
        \E j \in DOMAIN rqKeywords :
            IsSubstring(Lower(rqKeywords[j]),
                        Lower(rqPapers[i].title \o rqPapers[i].abstract))}

QualityIs(matching) ==
    /\ rqPapers = <<>> => rqResult.num = 0
    /\ rqPapers # <<>> =>
           rqResult.num * Len(rqPapers) = 100 * Cardinality(matching) * rqResult.den
    /\ 0 <= rqResult.num
    /\ rqResult.num <= 100 * rqResult.den

\* C16 as stated: 0 for an empty list, else 100 * (papers whose lower-cased
\* title+abstract contains a lower-cased keyword) / (papers), within [0,100].
C16_QualityConcatenated == rqPc = "done" => QualityIs(MatchingConcatenated)

\* C16, amended: the same with title and abstract joined by a single space
\* before the search, so a keyword may match the space and may not span the
\* last letter of the title and the first of the abstract.
C16_QualitySpaceJoined == rqPc = "done" => QualityIs(MatchingJoined)

\* a run over several papers of which some match and some do not, one of
\* them only through the joining space
C16_Witness ==
    /\ rqPc = "done"
    /\ Len(rqPapers) >= 2
    /\ 0 < rqResult.num
    /\ rqResult.num < 100 * rqResult.den
    /\ MatchingJoined # MatchingConcatenated

-----------------------------------------------------------------------------
(* Properties of fetch_arxiv_papers, checked under SpecFetch *)

EntryFails(i) == ~Mappable(feedDoc.entries[i])

SomethingFails ==
    \/ network # "ok"
    \/ ~feedDoc.wellformed
    \/ \E i \in DOMAIN feedDoc.entries : EntryFails(i)

\* C17: when the request, the timeout, the XML parse or the mapping of any
\* entry fails, the call raises nothing and returns the empty sequence, never
\* the entries parsed before the failure; otherwise it returns one record per
\* feed entry in feed order.
C17_FailsSoft ==
    fetchPc = "done" =>
        /\ ~fetchRaised
        /\ SomethingFails => fetchResult = <<>>
        /\ ~SomethingFails =>
               /\ Len(fetchResult) = Len(feedDoc.entries)
               /\ \A i \in DOMAIN feedDoc.entries :
                      /\ fetchResult[i].id = AfterLast(feedDoc.entries[i].id[1], Abs)
                      /\ fetchResult[i].title = Strip(feedDoc.entries[i].title[1])
                      /\ fetchResult[i].published = feedDoc.entries[i].published[1]

\* an entry failed after earlier entries had been mapped, and the call
\* returned nothing
C17_Witness ==
    /\ fetchPc = "done"
    /\ papers # <<>>
    /\ \E i \in DOMAIN feedDoc.entries : EntryFails(i)
    /\ fetchResult = <<>>
    /\ ~fetchRaised

-----------------------------------------------------------------------------
(* Frame properties of MetricsPlugin, checked under Spec *)

IsStart == ncalls' = ncalls + 1 /\ lastOp' = "start"

\* C18: over any sequence of start and end calls on a non-decreasing clock,
\* agent_calls, successful_operations and total_processing_time never
\* decrease; papers_processed stays 0; a start changes only agent_calls, by
\* exactly one, and the pending timestamp; an end never changes agent_calls,
\* papers_processed or failed_operations.
C18_CountersFrame ==
    /\ papers_processed = 0
    /\ [][/\ agent_calls' >= agent_calls
          /\ successful_operations' >= successful_operations
          /\ total_processing_time' >= total_processing_time
          /\ papers_processed' = 0
          /\ IsStart =>
                 /\ agent_calls' = agent_calls + 1
                 /\ UNCHANGED <<papers_processed, total_processing_time,
                                successful_operations, failed_operations>>
          /\ IsEnd =>
                 UNCHANGED <<agent_calls, papers_processed,
                             failed_operations>>]_vars

\* an end without a pending start, then a start, then an end that added time
C18_Witness ==
    /\ spurious
    /\ lastOp = "end"
    /\ prevOp = "start"
    /\ agent_calls >= 1
    /\ successful_operations >= 1
    /\ total_processing_time > 0

-----------------------------------------------------------------------------
(* MetricsPlugin composed with evaluate_performance, checked under Spec *)

\* C20: the reliability rating computed from the summary is Needs Improvement
\* while no operation has completed and Excellent once one has; Good and
\* Acceptable never occur.
C20_ReliabilityTwoValued ==
    LET rating == ReliabilityRating(MetricsSummary)
        want == IF successful_operations = 0 THEN "Needs Improvement"
                ELSE "Excellent"
    IN  /\ rating = want
        /\ (completed = 0) = (successful_operations = 0)
        /\ rating \notin {"Good", "Acceptable"}
        /\ lastOp = "summary" => ReliabilityRating(lastSummary) = want

\* a summary taken with more operations started than ended rates Excellent
C20_Witness ==
    /\ lastOp = "summary"
    /\ agent_calls > successful_operations
    /\ successful_operations >= 1
    /\ ReliabilityRating(lastSummary) = "Excellent"

-----------------------------------------------------------------------------
(* Properties of process_research_query, checked under SpecSystem *)

RECURSIVE OwnCallsUpTo(_)
OwnCallsUpTo(k) ==
    IF k = 0 THEN 0 ELSE queryMetrics[k].ownCalls + OwnCallsUpTo(k - 1)

\* C19: the plugin of a system is created once and never reset: the metrics
\* returned by the k-th process_research_query are cumulative over queries
\* 1..k, so total_agent_calls and successful_operations of query k are at
\* least those returned by query k-1; they are not per-query values.
C19_MetricsCumulative ==
    /\ \A k \in DOMAIN queryMetrics :
           /\ queryMetrics[k].metrics.total_agent_calls >= OwnCallsUpTo(k)
           /\ queryMetrics[k].metrics.total_agent_calls <= agent_calls
           /\ queryMetrics[k].metrics.successful_operations
                  <= successful_operations
    /\ \A k \in 2..Len(queryMetrics) :
           /\ queryMetrics[k].metrics.total_agent_calls
                  >= queryMetrics[k - 1].metrics.total_agent_calls
           /\ queryMetrics[k].metrics.successful_operations
                  >= queryMetrics[k - 1].metrics.successful_operations

\* a second query made one agent call of its own and returned a larger count
C19_Witness ==
    /\ Len(queryMetrics) >= 2
    /\ queryMetrics[1].ownCalls >= 1
    /\ queryMetrics[2].ownCalls >= 1
    /\ queryMetrics[2].metrics.total_agent_calls > queryMetrics[2].ownCalls
    /\ queryMetrics[2].metrics.successful_operations
           >= queryMetrics[1].metrics.successful_operations

=============================================================================
